---- MODULE Spec2Model ----
(***************************************************************************)
(* A model of the swarm coordination substrate:                            *)
(*   - SwarmWorkspace   (src/swarm_orchestrator.py): the file-backed task, *)
(*     message and thinking-log store;                                     *)
(*   - SwarmOrchestrator (src/swarm_orchestrator.py): agent set, task      *)
(*     creation and the execute_sequential_swarm_thinking driver;          *)
(*   - AgentLauncher    (src/agent_launcher.py): the process supervisor    *)
(*     (launch_agent, monitor_swarm, cleanup_swarm).                       *)
(*                                                                         *)
(* Three specifications share the variables: StoreSpec drives the store    *)
(* directly, Spec runs the orchestrator, and SupervisorSpec runs the       *)
(* launcher and the agent processes.                                       *)
(***************************************************************************)
EXTENDS Integers, Sequences, FiniteSets, TLC

VARIABLES
    now,              \* the wall clock, in whole seconds (time.time(), utcnow)
    files,            \* tasks/<status>/<task_id>.json : status -> (task_id -> record)
    mem,              \* the Task objects alive in memory, by handle 1..Len(mem)
    active_tasks,     \* SwarmOrchestrator.active_tasks : task_id -> handle
    agents,           \* SwarmOrchestrator.agents, in insertion order (agent ids)
    messages,         \* messages/<agent_id>_<sec>.json : name -> message
    logs,             \* thinking_sessions/<agent_id>_<stage>.json : name -> entry
    pc,               \* where execute_sequential_swarm_thinking stands
    ex,               \* its locals: task_id, individual_results, ultrathink_results,
                      \* and the position of the running loop over self.agents
    ret,              \* outcome of the last store / orchestrator call
    procs,            \* every agent process started so far, by pid 1..Len(procs)
    active_processes, \* AgentLauncher.active_processes : agent_id -> pid
    results,          \* results/<agent_id>_result.json : agent_id -> kind of content
    activity,         \* coordination/agent_activity_<agent_id>.json : set of agent ids
    lpc,              \* where the launcher stands: idle, inside monitor_swarm
                      \* or inside launch_swarm
    mon,              \* monitor_swarm's locals
    sw,               \* launch_swarm's locals
    lret              \* outcome of the last launcher call

storeVars == <<files, mem, active_tasks, agents, messages, logs, pc, ex, ret>>
supVars   == <<procs, active_processes, results, activity, lpc, mon, sw, lret>>
vars      == <<now, files, mem, active_tasks, agents, messages, logs, pc, ex, ret,
               procs, active_processes, results, activity, lpc, mon, sw, lret>>

----------------------------------------------------------------------------
(* Bounds of the model *)

MaxClock == 2      \* the clock runs over 1..MaxClock
MaxObjs  == 2      \* Task objects that may be alive in memory
MaxInits == 2      \* calls of initialize_swarm
MaxOwn   == 2      \* agents a caller may add to the agent set by itself
MaxProcs == 2      \* agent processes the launcher may start

----------------------------------------------------------------------------
(* Finite maps (dicts, directories) *)

Put(f, k, v) == [x \in (DOMAIN f) \cup {k} |-> IF x = k THEN v ELSE f[x]]

Remove(f, k) == [x \in (DOMAIN f) \ {k} |-> f[x]]

EmptyMap == [x \in {} |-> 0]

Range(s) == {s[i] : i \in DOMAIN s}

----------------------------------------------------------------------------
(* Tasks *)

Statuses == {"pending", "active", "completed"}

\* a status no branch of write_task recognizes
UnknownStatus == "archived"

StatusInputs == Statuses \cup {UnknownStatus}

\* completed_at: Optional[str] = None
None == 0

\* every task is an object in memory, so there are at most MaxObjs of them
TaskIds == 1..MaxObjs

MandatorySteps ==
    <<"phase_1_system_mapping", "phase_2_evidence_verification",
      "phase_3_minimal_intervention">>

UltrathinkSteps ==
    <<"collaborative_perspective_gathering", "assumption_challenging",
      "solution_space_exploration", "insight_synthesis">>

NoResult ==
    [present |-> FALSE, individual |-> {}, ultrathink |-> {}, final_synthesis |-> "none"]

\* Task(task_id=..., sequential_steps=...) with the dataclass defaults
NewTask(id, steps) ==
    [task_id |-> id, status |-> "pending", completed_at |-> None,
     result |-> NoResult, sequential_steps |-> steps]

----------------------------------------------------------------------------
(* SwarmWorkspace *)

HasFile(fs, dir, id) == dir \in Statuses /\ id \in DOMAIN fs[dir]

write_task_raises(task) == task.status \notin Statuses

\* write_task with its last branch falling back to tasks/pending
write_task_files_coerce(fs, task) ==
    LET dir == IF task.status \in Statuses THEN task.status ELSE "pending"
    IN [fs EXCEPT ![dir] = Put(@, task.task_id, task)]

\* the task subdivisions after write_task(task)
write_task_files(fs, task) ==
    IF write_task_raises(task)
    THEN fs
    ELSE [fs EXCEPT ![task.status] = Put(@, task.task_id, task)]

\* move_task without the unlink
unlink_none(fs, task) == fs

\* move_task, first half: remove the record from the task's current location
unlink_current(fs, task) ==
    IF HasFile(fs, task.status, task.task_id)
    THEN [fs EXCEPT ![task.status] = Remove(@, task.task_id)]
    ELSE fs

\* move_task without the completion timestamp
moved_task_no_stamp(task, new_status, clock) == [task EXCEPT !.status = new_status]

\* move_task, second half: the Task object after the status update
moved_task(task, new_status, clock) ==
    [task EXCEPT !.status = new_status,
                 !.completed_at = IF new_status = "completed" THEN clock ELSE @]

Handles == 1..Len(mem)

\* The outcome of a call, as its caller sees it: the operation, the Task object
\* and status it was about, and whether it raised.  absent and again describe
\* a move_task call: the record was missing from the task's current location
\* when the move (or the first of a run of identical moves) began, and the
\* call repeats the successful call before it.
\* report is what get_swarm_status returned.
NoReport == [agents |-> {}, active_tasks |-> 0, thinking_sessions |-> 0]

Outcome(op, h, arg, raised) ==
    [op |-> op, h |-> h, arg |-> arg, raised |-> raised,
     absent |-> FALSE, again |-> FALSE, report |-> NoReport]

write_task(h) ==
    /\ pc = "idle"
    /\ h \in Handles
    /\ files' = write_task_files(files, mem[h])
    /\ ret' = Outcome("write_task", h, mem[h].status, write_task_raises(mem[h]))
    /\ UNCHANGED <<now, mem, active_tasks, agents, messages, logs, pc, ex>>
    /\ UNCHANGED supVars

move_task(h, new_status) ==
    /\ pc = "idle"
    /\ h \in Handles
    /\ LET task == moved_task(mem[h], new_status, now)
       IN /\ mem' = [mem EXCEPT ![h] = task]
          /\ files' = write_task_files(unlink_current(files, mem[h]), task)
          /\ LET again == /\ ret.op = "move_task" /\ ret.h = h
                           /\ ret.arg = new_status /\ ~ret.raised
             IN ret' = [Outcome("move_task", h, new_status, write_task_raises(task))
                        EXCEPT !.again = again,
                               !.absent = IF again THEN ret.absent
                                          ELSE ~HasFile(files, mem[h].status,
                                                        mem[h].task_id)]
    /\ UNCHANGED <<now, active_tasks, agents, messages, logs, pc, ex>>
    /\ UNCHANGED supVars

\* get_pending_tasks builds a fresh Task object from every record of
\* tasks/pending; the caller keeps the one for task id
get_pending_tasks(id) ==
    /\ pc = "idle"
    /\ Len(mem) < MaxObjs
    /\ HasFile(files, "pending", id)
    /\ mem' = Append(mem, files["pending"][id])
    /\ ret' = Outcome("get_pending_tasks", Len(mem) + 1, "pending", FALSE)
    /\ UNCHANGED <<now, files, active_tasks, agents, messages, logs, pc, ex>>
    /\ UNCHANGED supVars

----------------------------------------------------------------------------
(* The clock *)

Tick ==
    /\ now < MaxClock
    /\ now' = now + 1
    /\ UNCHANGED storeVars
    /\ UNCHANGED supVars

----------------------------------------------------------------------------
(* Messages and thinking logs *)

\* the agent_id under which the orchestrator itself writes messages
OrchestratorId == <<"orchestrator", 0>>

\* write_message: the file name is <agent_id>_<int(time.time())>.json, opened 'w'
write_message(msgs, message, clock) ==
    Put(msgs, <<message.agent_id, clock>>, message)

\* log_thinking keeping the entry in self.thinking_log only
log_thinking_memory_only(lg, agent_id, stage, clock) == lg

\* log_thinking with the time of the write made part of the file name
log_thinking_append(lg, agent_id, stage, clock) ==
    Put(lg, <<agent_id, stage, clock>>,
        [agent_id |-> agent_id, stage |-> stage, timestamp |-> clock])

\* log_thinking: the file name is <agent_id>_<stage>.json, opened 'w'
log_thinking(lg, agent_id, stage, clock) ==
    Put(lg, <<agent_id, stage>>,
        [agent_id |-> agent_id, stage |-> stage, timestamp |-> clock])

\* _collect_thinking_sessions, for one agent: the entries of the files that
\* thinking_sessions/<agent_id>_*.json matches
collect_thinking_sessions(lg, agent_id) ==
    {lg[n] : n \in {m \in DOMAIN lg : m[1] = agent_id}}

----------------------------------------------------------------------------
(* SwarmOrchestrator *)

\* agent_specialties, in the dict's order
Specialties == <<"coordinator", "analyst", "validator", "explorer", "synthesizer">>

\* An agent id is "<specialty>_agent_<uuid4().hex[:8]>": the pair of the
\* specialty and the random suffix.  Suffixes are fresh: the n-th agent ever
\* added to the set draws the suffix n.
AgentId(specialty, suffix) == <<specialty, suffix>>

specialty_of(agent_id) == agent_id[1]

\* initialize_swarm with the last role's instance left out
new_agents_but_last(ags) ==
    [i \in 1..(Len(Specialties) - 1) |-> AgentId(Specialties[i], Len(ags) + i)]

new_agents(ags) ==
    [i \in 1..Len(Specialties) |-> AgentId(Specialties[i], Len(ags) + i)]

init_message(agent_id) ==
    [agent_id |-> agent_id, message_type |-> "agent_initialized",
     target |-> "swarm", correlation_id |-> None]

\* self.agents after initialize_swarm: the new instances are added to the dict
initialize_swarm_agents(ags) == ags \o new_agents(ags)

\* messages/ after initialize_swarm: one agent_initialized message per instance
initialize_swarm_messages(msgs, ags, clock) ==
    LET new == Range(new_agents(ags))
    IN [n \in (DOMAIN msgs) \cup {<<a, clock>> : a \in new} |->
            IF n[1] \in new /\ n[2] = clock THEN init_message(n[1]) ELSE msgs[n]]

\* the roles of the agents a caller adds by itself
OwnRoles == {"analyst", "validator"}

\* A caller fills the public dict self.agents itself, the way lines 262-263
\* do, with an instance of one role: the way an agent set that
\* initialize_swarm did not build (one without a synthesizer, one of two
\* agents) comes to exist before execute_sequential_swarm_thinking.
register_agent(specialty) ==
    /\ pc = "idle"
    /\ Len(agents) < MaxOwn
    /\ agents' = Append(agents, AgentId(specialty, Len(agents) + 1))
    /\ ret' = Outcome("register_agent", 0, specialty, FALSE)
    /\ UNCHANGED <<now, files, mem, active_tasks, messages, logs, pc, ex>>
    /\ UNCHANGED supVars

\* the calls of initialize_swarm made so far
inits(ags) == Cardinality({a \in Range(ags) : specialty_of(a) = "coordinator"})

initialize_swarm ==
    /\ pc = "idle"
    /\ inits(agents) < MaxInits
    /\ agents' = initialize_swarm_agents(agents)
    /\ messages' = initialize_swarm_messages(messages, agents, now)
    /\ ret' = Outcome("initialize_swarm", 0, "swarm_initialized", FALSE)
    /\ UNCHANGED <<now, files, mem, active_tasks, logs, pc, ex>>
    /\ UNCHANGED supVars

\* task ids are "thinking_task_<uuid4().hex[:8]>", fresh for every task
next_task_id == Cardinality(DOMAIN active_tasks) + 1

\* the collaborative phases appended whatever require_ultrathink is
task_steps_always(require_ultrathink) == MandatorySteps \o UltrathinkSteps

task_steps(require_ultrathink) ==
    IF require_ultrathink THEN MandatorySteps \o UltrathinkSteps ELSE MandatorySteps

task_message(task_id) ==
    [agent_id |-> OrchestratorId, message_type |-> "task_created",
     target |-> "all_agents", correlation_id |-> task_id]

CanCreateTask == Len(mem) < MaxObjs

create_thinking_task(require_ultrathink) ==
    /\ pc = "idle"
    /\ CanCreateTask
    /\ LET task == NewTask(next_task_id, task_steps(require_ultrathink))
       IN /\ files' = write_task_files(files, task)
          /\ mem' = Append(mem, task)
          /\ active_tasks' = Put(active_tasks, task.task_id, Len(mem) + 1)
          /\ messages' = write_message(messages, task_message(task.task_id), now)
          /\ ret' = Outcome("create_thinking_task", Len(mem) + 1, "pending", FALSE)
    /\ UNCHANGED <<now, agents, logs, pc, ex>>
    /\ UNCHANGED supVars

NonCoordinators(ags) == {a \in Range(ags) : specialty_of(a) # "coordinator"}

\* other_insights with the filter aid != agent_id left out
other_insights_all(individual, agent_id) == individual

\* other_insights: the Phase-1 results of the agents other than agent_id
other_insights(individual, agent_id) == individual \ {agent_id}

\* self.agents.get("synthesizer_agent"): a lookup by the bare key, which has
\* no uuid suffix
SynthesizerKey == <<"synthesizer", None>>

synthesizer_found(ags) == SynthesizerKey \in Range(ags)

\* the absent synthesizer reported as an empty result
final_synthesis_empty(ags) ==
    IF synthesizer_found(ags) THEN "integrated" ELSE "none"

final_synthesis(ags) ==
    IF synthesizer_found(ags) THEN "integrated" ELSE "unavailable"

\* execute_sequential_swarm_thinking, lines 339-344: initialize the swarm if
\* there are no agents, then create the task
exec_begin ==
    /\ pc = "idle"
    /\ CanCreateTask
    /\ LET init  == agents = <<>>
           ags   == IF init THEN initialize_swarm_agents(agents) ELSE agents
           msgs  == IF init THEN initialize_swarm_messages(messages, agents, now)
                    ELSE messages
           task  == NewTask(next_task_id, task_steps(TRUE))
       IN /\ agents' = ags
          /\ files' = write_task_files(files, task)
          /\ mem' = Append(mem, task)
          /\ active_tasks' = Put(active_tasks, task.task_id, Len(mem) + 1)
          /\ messages' = write_message(msgs, task_message(task.task_id), now)
          /\ ex' = [task_id |-> task.task_id, individual |-> {},
                    ultrathink |-> EmptyMap, integration |-> EmptyMap, i |-> 1]
    /\ pc' = "phase1"
    /\ ret' = Outcome("create_thinking_task", Len(mem) + 1, "pending", FALSE)
    /\ UNCHANGED <<now, logs>>
    /\ UNCHANGED supVars

\* the loop over self.agents.items() left after its first agent
loop_done_first(i, ags) == i >= 1

\* the agent visited at index i was the last of self.agents.items()
loop_done(i, ags) == i >= Len(ags)

\* lines 346-350: Phase 1, one pass of the loop: the agent at ex.i runs
\* sequential_think unless it is the coordinator
exec_phase1 ==
    /\ pc = "phase1"
    /\ LET a == agents[ex.i]
       IN IF specialty_of(a) # "coordinator"
          THEN /\ logs' = log_thinking(logs, a, "sequential_analysis", now)
               /\ ex' = [ex EXCEPT !.individual = @ \cup {a},
                                   !.i = IF loop_done(ex.i, agents) THEN 1 ELSE @ + 1]
          ELSE /\ logs' = logs
               /\ ex' = [ex EXCEPT !.i = IF loop_done(ex.i, agents) THEN 1 ELSE @ + 1]
    /\ pc' = IF loop_done(ex.i, agents) THEN "phase2" ELSE "phase1"
    /\ UNCHANGED <<now, files, mem, active_tasks, agents, messages, ret>>
    /\ UNCHANGED supVars

\* _integrate_other_insights(insights): the "integration_insights" part of
\* the result of ultrathink_collaborative, four empty lists whatever insights is
integrate_other_insights(insights) ==
    [synthesized_insights |-> <<>>, conflicts_identified |-> <<>>,
     emergent_patterns |-> <<>>, collaborative_conclusions |-> <<>>]

\* lines 352-357: Phase 2, one pass of the loop: the agent at ex.i runs
\* ultrathink_collaborative on the other agents' Phase-1 results unless it is
\* the coordinator; ex.ultrathink records the peer input it was given and
\* ex.integration the integration part of its result
exec_phase2 ==
    /\ pc = "phase2"
    /\ LET a == agents[ex.i]
       IN IF specialty_of(a) # "coordinator"
          THEN /\ logs' = log_thinking(logs, a, "ultrathink_collaborative", now)
               /\ ex' = [ex EXCEPT !.ultrathink =
                                       Put(@, a, other_insights(ex.individual, a)),
                                   !.integration =
                                       Put(@, a, integrate_other_insights(
                                                     other_insights(ex.individual, a))),
                                   !.i = IF loop_done(ex.i, agents) THEN 1 ELSE @ + 1]
          ELSE /\ logs' = logs
               /\ ex' = [ex EXCEPT !.i = IF loop_done(ex.i, agents) THEN 1 ELSE @ + 1]
    /\ pc' = IF loop_done(ex.i, agents) THEN "synthesis" ELSE "phase2"
    /\ UNCHANGED <<now, files, mem, active_tasks, agents, messages, ret>>
    /\ UNCHANGED supVars

\* The open() of log_thinking (line 169) raises OSError while the agent at
\* ex.i runs its phase: no handler stands between log_thinking and the caller
\* of execute_sequential_swarm_thinking, so the call ends there, raising.
exec_log_fails ==
    /\ pc \in {"phase1", "phase2"}
    /\ specialty_of(agents[ex.i]) # "coordinator"
    /\ pc' = "idle"
    /\ ret' = Outcome("execute_sequential_swarm_thinking", active_tasks[ex.task_id],
                       "log_thinking", TRUE)
    /\ UNCHANGED <<now, files, mem, active_tasks, agents, messages, logs, ex>>
    /\ UNCHANGED supVars

\* lines 359-376: synthesis, the result bundle, and the move to completed
exec_finish ==
    /\ pc = "synthesis"
    /\ LET h      == active_tasks[ex.task_id]
           bundle == [present |-> TRUE, individual |-> ex.individual,
                      ultrathink |-> DOMAIN ex.ultrathink,
                      final_synthesis |-> final_synthesis(agents)]
           before == [mem[h] EXCEPT !.result = bundle]
           task   == moved_task(before, "completed", now)
       IN /\ mem' = [mem EXCEPT ![h] = task]
          /\ files' = write_task_files(unlink_current(files, before), task)
          /\ ret' = Outcome("execute_sequential_swarm_thinking", h, "completed",
                             write_task_raises(task))
    /\ pc' = "idle"
    /\ UNCHANGED <<now, active_tasks, agents, messages, logs, ex>>
    /\ UNCHANGED supVars

\* get_swarm_status counting only the tasks that are not completed
swarm_status_unfinished ==
    [agents |-> Range(agents),
     active_tasks |-> Cardinality({id \in DOMAIN active_tasks :
                                     mem[active_tasks[id]].status # "completed"}),
     thinking_sessions |-> Cardinality(DOMAIN logs)]

\* what get_swarm_status returns (lines 390-395)
swarm_status ==
    [agents |-> Range(agents),
     active_tasks |-> Cardinality(DOMAIN active_tasks),
     thinking_sessions |-> Cardinality(DOMAIN logs)]

\* get_swarm_status dropping the finished tasks from the task table
get_swarm_status_prunes ==
    /\ pc = "idle"
    /\ ret' = [Outcome("get_swarm_status", 0, "status", FALSE) EXCEPT
                  !.report = swarm_status]
    /\ active_tasks' = [id \in {i \in DOMAIN active_tasks :
                                   mem[active_tasks[i]].status # "completed"} |->
                            active_tasks[id]]
    /\ UNCHANGED <<now, files, mem, agents, messages, logs, pc, ex>>
    /\ UNCHANGED supVars

get_swarm_status ==
    /\ pc = "idle"
    /\ ret' = [Outcome("get_swarm_status", 0, "status", FALSE) EXCEPT
                  !.report = swarm_status]
    /\ UNCHANGED <<now, files, mem, active_tasks, agents, messages, logs, pc, ex>>
    /\ UNCHANGED supVars

----------------------------------------------------------------------------
(* AgentLauncher: the process supervisor *)

\* the keys of agent_configs
ConfigRoles == {"coordinator", "analyst", "validator", "explorer", "synthesizer"}

\* the agent types launch_agent is called with; the last is in no config
LaunchTypes == {"analyst", "intruder"}

\* agent_id = f"{agent_type}_{int(time.time())}"
agent_id(agent_type, clock) == [agent_type |-> agent_type, sec |-> clock]

\* an id no launch has produced (the clock starts at 1)
GhostId == agent_id("analyst", 0)

\* time.sleep(5) between two polls of monitor_swarm
PollInterval == 5

\* the timeouts monitor_swarm is called with, in seconds
Timeouts == {0, 7}

Pids == 1..Len(procs)

LaunchedIds == {procs[p].aid : p \in Pids}

Running(p) == procs[p].state = "running"

NoId == agent_id("none", 0)

NoMon == [ids |-> {}, timeout |-> 0, start |-> 0, agent_status |-> EmptyMap,
          swarm_results |-> EmptyMap, passes |-> 0]

\* The outcome of a launcher call, as its caller sees it.  For launch_agent,
\* popen_calls is the number of times it called subprocess.Popen; for
\* launch_swarm, agent_types is its argument, launched is the list of ids it
\* returned and abandoned the list of the ids it had launched when it raised.  For cleanup_swarm,
\* tracked is the set of the given ids that had a handle at the call and
\* again tells that the call before it was a cleanup_swarm of the same ids; for
\* monitor_swarm, how tells the way the loop ended, passes is the number of
\* passes of the loop and alive is the set of the given ids whose tracked
\* process was running when it returned.
LOutcome(op, raised) ==
    [op |-> op, raised |-> raised, id |-> NoId, ids |-> {}, tracked |-> {},
     agent_status |-> EmptyMap, swarm_results |-> EmptyMap,
     completion_time |-> 0, timeout |-> 0, how |-> "none", alive |-> {},
     again |-> FALSE, popen_calls |-> 0, launched |-> <<>>, abandoned |-> <<>>,
     agent_types |-> <<>>, passes |-> 0]

\* launch_agent(agent_type), by what happens to it:
\*   "started"     subprocess.Popen succeeds and the id is returned;
\*   "popen_fails" subprocess.Popen raises (no such executable, no cwd).
LaunchOutcomes == {"started", "popen_fails"}

\* launch_agent with the exception of subprocess.Popen swallowed
launch_raises_config_only(agent_type, outcome) == agent_type \notin ConfigRoles

\* launch_agent raises: ValueError at line 166, or the RuntimeError of line
\* 225 made from whatever the try block raised
launch_raises(agent_type, outcome) ==
    agent_type \notin ConfigRoles \/ outcome = "popen_fails"

launch_agent(agent_type, outcome) ==
    /\ lpc = "idle"
    /\ now <= MaxClock
    /\ IF launch_raises(agent_type, outcome)
       THEN /\ lret' = [LOutcome("launch_agent", TRUE) EXCEPT
                           !.popen_calls = IF agent_type \in ConfigRoles THEN 1 ELSE 0]
            /\ UNCHANGED <<procs, active_processes, activity>>
       ELSE LET id == agent_id(agent_type, now)
            IN /\ Len(procs) < MaxProcs
               /\ procs' = Append(procs, [aid |-> id, state |-> "running",
                                          signals |-> <<>>])
               /\ active_processes' = Put(active_processes, id, Len(procs) + 1)
               /\ activity' = activity \cup {id}
               /\ lret' = [LOutcome("launch_agent", FALSE) EXCEPT
                              !.id = id, !.popen_calls = 1]
    /\ UNCHANGED <<now, results, lpc, mon, sw>>
    /\ UNCHANGED storeVars

\* the agent_types launch_swarm is called with
SwarmTypes == {<<"analyst">>, <<"coordinator", "intruder">>,
               <<"coordinator", "analyst", "coordinator">>}

NoSw == [types |-> <<>>, i |-> 0, launched |-> <<>>]

\* the loop launching every entry of agent_types, coordinators too
swarm_skips_none(agent_type) == FALSE

\* if agent_type != "coordinator" (line 261): the entries the loop passes over
swarm_skips(agent_type) == agent_type = "coordinator"

\* launch_swarm going on to the next agent when a launch raises
launch_swarm_raises_never(agent_type, outcome) == FALSE

\* launch_swarm has no handler around launch_agent: what launch_agent
\* raises, launch_swarm raises
launch_swarm_raises(agent_type, outcome) == launch_raises(agent_type, outcome)

\* the effect of a launch_agent that succeeds, inside launch_swarm
record_launch(id) ==
    /\ Len(procs) < MaxProcs
    /\ procs' = Append(procs, [aid |-> id, state |-> "running", signals |-> <<>>])
    /\ active_processes' = Put(active_processes, id, Len(procs) + 1)
    /\ activity' = activity \cup {id}

\* launch_swarm, lines 247-257: the coordinator is launched first, then
\* sleep(2)
launch_swarm_begin(types, outcome) ==
    /\ lpc = "idle"
    /\ now <= MaxClock
    /\ IF launch_swarm_raises("coordinator", outcome)
       THEN /\ lret' = [LOutcome("launch_swarm", TRUE) EXCEPT !.popen_calls = 1]
            /\ UNCHANGED <<now, procs, active_processes, activity, lpc, sw>>
       ELSE LET id == agent_id("coordinator", now)
            IN /\ record_launch(id)
               /\ now' = now + 2
               /\ lpc' = "launching"
               /\ sw' = [types |-> types, i |-> 1, launched |-> <<id>>]
               /\ lret' = lret
    /\ UNCHANGED <<results, mon>>
    /\ UNCHANGED storeVars

\* launch_swarm, lines 260-266: one pass of the loop over agent_types, or
\* the return of the list when the loop is over
launch_swarm_step(outcome) ==
    /\ lpc = "launching"
    /\ IF sw.i > Len(sw.types)
       THEN /\ lret' = [LOutcome("launch_swarm", FALSE) EXCEPT
                           !.launched = sw.launched, !.agent_types = sw.types]
            /\ lpc' = "idle"
            /\ sw' = NoSw
            /\ UNCHANGED <<now, procs, active_processes, activity>>
       ELSE LET t == sw.types[sw.i]
            IN IF swarm_skips(t)
               THEN /\ sw' = [sw EXCEPT !.i = @ + 1]
                    /\ UNCHANGED <<now, procs, active_processes, activity, lpc, lret>>
               ELSE IF launch_swarm_raises(t, outcome)
                    THEN /\ lret' = [LOutcome("launch_swarm", TRUE) EXCEPT
                                        !.abandoned = sw.launched]
                         /\ lpc' = "idle"
                         /\ sw' = NoSw
                         /\ UNCHANGED <<now, procs, active_processes, activity>>
                    ELSE LET id == agent_id(t, now)
                         IN /\ record_launch(id)
                            /\ now' = now + 1
                            /\ sw' = [sw EXCEPT !.i = @ + 1,
                                                !.launched = Append(@, id)]
                            /\ UNCHANGED <<lpc, lret>>
    /\ UNCHANGED <<results, mon>>
    /\ UNCHANGED storeVars

\* An agent process ends by itself.
proc_exit(p) ==
    /\ p \in Pids
    /\ Running(p)
    /\ procs' = [procs EXCEPT ![p].state = "exited"]
    /\ UNCHANGED <<now, active_processes, results, activity, lpc, mon, sw, lret>>
    /\ UNCHANGED storeVars

\* An agent process writes results/<AGENT_ID>_result.json, as its prompt asks.
proc_write_result(p) ==
    /\ p \in Pids
    /\ Running(p)
    /\ procs[p].aid \notin DOMAIN results
    /\ results' = Put(results, procs[p].aid, "json")
    /\ UNCHANGED <<now, procs, active_processes, activity, lpc, mon, sw, lret>>
    /\ UNCHANGED storeVars

\* the test of process.poll() inverted
poll_status_inverted(p) == IF Running(p) THEN "completed" ELSE "running"

\* process.poll() is None -> "running", else "completed"
poll_status(p) == IF Running(p) THEN "running" ELSE "completed"

\* the ids of agent_ids that have a handle (lines 279 and 332)
tracked(ids) == ids \cap DOMAIN active_processes

\* the id sets monitor_swarm and cleanup_swarm are called with
IdInputs == {ids \in SUBSET (LaunchedIds \cup {GhostId}) : Cardinality(ids) \in 1..2}

monitor_begin(ids, timeout) ==
    /\ lpc = "idle"
    /\ now <= MaxClock
    /\ lpc' = "polling"
    /\ mon' = [ids |-> ids, timeout |-> timeout, start |-> now,
               agent_status |-> EmptyMap, swarm_results |-> EmptyMap,
               passes |-> 0]
    /\ UNCHANGED <<now, procs, active_processes, results, activity, sw, lret>>
    /\ UNCHANGED storeVars

monitor_result(how) ==
    [LOutcome("monitor_swarm", FALSE) EXCEPT
        !.ids = mon.ids, !.agent_status = mon.agent_status,
        !.swarm_results = mon.swarm_results,
        !.completion_time = now - mon.start, !.timeout = mon.timeout,
        !.how = how, !.passes = mon.passes,
        !.alive = {id \in tracked(mon.ids) : Running(active_processes[id])}]

\* all_complete cleared by an id that has no handle
all_complete_every_id(ids) ==
    /\ ids \subseteq DOMAIN active_processes
    /\ \A id \in tracked(ids) : ~Running(active_processes[id])

\* all_complete (lines 276-284): set at the top of the pass, cleared by a
\* tracked agent whose process still runs
all_complete(ids) == \A id \in tracked(ids) : ~Running(active_processes[id])

\* the loop condition with <= for <
within_timeout_inclusive(elapsed, timeout) == elapsed <= timeout

\* while time.time() - start_time < timeout (line 275)
within_timeout(elapsed, timeout) == elapsed < timeout

\* one pass of the while loop (lines 276-299): poll every tracked agent,
\* collect the results of the finished ones, then break or sleep
monitor_poll ==
    /\ lpc = "polling"
    /\ within_timeout(now - mon.start, mon.timeout)
    /\ LET seen == tracked(mon.ids)
           status == [id \in (DOMAIN mon.agent_status) \cup seen |->
                        IF id \in seen THEN poll_status(active_processes[id])
                        ELSE mon.agent_status[id]]
           done == {id \in seen : ~Running(active_processes[id])}
           fresh == {id \in done : id \in DOMAIN results
                                    /\ id \notin DOMAIN mon.swarm_results}
           collected == [id \in (DOMAIN mon.swarm_results) \cup fresh |->
                            IF id \in fresh THEN results[id]
                            ELSE mon.swarm_results[id]]
           after == [mon EXCEPT !.agent_status = status,
                                !.swarm_results = collected,
                                !.passes = @ + 1]
       IN IF all_complete(mon.ids)
          THEN /\ lpc' = "idle"
               /\ mon' = NoMon
               /\ lret' = [monitor_result("all_complete") EXCEPT
                              !.agent_status = status,
                              !.swarm_results = collected,
                              !.passes = mon.passes + 1]
               /\ now' = now
          ELSE /\ lpc' = "polling"
               /\ mon' = after
               /\ lret' = lret
               /\ now' = now + PollInterval
    /\ UNCHANGED <<procs, active_processes, results, activity, sw>>
    /\ UNCHANGED storeVars

\* the loop condition fails: the timeout has elapsed (lines 275 and 301-306)
monitor_return ==
    /\ lpc = "polling"
    /\ ~within_timeout(now - mon.start, mon.timeout)
    /\ lpc' = "idle"
    /\ mon' = NoMon
    /\ lret' = monitor_result("timeout")
    /\ UNCHANGED <<now, procs, active_processes, results, activity, sw>>
    /\ UNCHANGED storeVars

\* del self.active_processes[agent_id] outside the membership test
cleanup_deleted_unguarded(ids) == ids

\* the ids whose handle cleanup_swarm deletes (line 344, under the test of 332)
cleanup_deleted(ids) == tracked(ids)

\* del of a key the dict does not hold raises KeyError
cleanup_raises(ids) == cleanup_deleted(ids) \ DOMAIN active_processes # {}

\* cleanup_swarm killing at once, without terminate() and the wait
cleanup_signals_kill_only(graceful) == <<"SIGKILL">>

\* the signals cleanup_swarm sends to a running process (lines 338-342):
\* terminate(), and kill() when wait(timeout=10) expires
cleanup_signals(graceful) ==
    IF graceful THEN <<"SIGTERM">> ELSE <<"SIGTERM", "SIGKILL">>

\* cleanup_swarm(agent_ids); graceful is the set of ids whose process exits
\* within the 10 s that follow terminate()
cleanup_swarm(ids, graceful) ==
    /\ lpc = "idle"
    /\ LET pids == {active_processes[id] : id \in tracked(ids)}
           soft == {active_processes[id] : id \in tracked(ids) \cap graceful}
       IN procs' = [p \in Pids |->
                      IF p \in pids /\ Running(p)
                      THEN [procs[p] EXCEPT
                               !.state = IF p \in soft THEN "terminated" ELSE "killed",
                               !.signals = cleanup_signals(p \in soft)]
                      ELSE procs[p]]
    /\ active_processes' = [id \in (DOMAIN active_processes) \ cleanup_deleted(ids) |->
                               active_processes[id]]
    /\ lret' = [LOutcome("cleanup_swarm", cleanup_raises(ids)) EXCEPT
                   !.ids = ids, !.tracked = tracked(ids),
                   !.again = (lret.op = "cleanup_swarm" /\ lret.ids = ids)]
    /\ UNCHANGED <<now, results, activity, lpc, mon, sw>>
    /\ UNCHANGED storeVars

----------------------------------------------------------------------------
(* The store and the orchestrator *)

Init ==
    /\ now = 1
    /\ files = [s \in Statuses |-> EmptyMap]
    /\ mem = <<>>
    /\ active_tasks = EmptyMap
    /\ agents = <<>>
    /\ messages = EmptyMap
    /\ logs = EmptyMap
    /\ pc = "idle"
    /\ ex = [task_id |-> 0, individual |-> {}, ultrathink |-> EmptyMap,
             integration |-> EmptyMap, i |-> 1]
    /\ ret = Outcome("none", 0, "none", FALSE)
    /\ procs = <<>>
    /\ active_processes = EmptyMap
    /\ results = EmptyMap
    /\ activity = {}
    /\ lpc = "idle"
    /\ mon = NoMon
    /\ sw = NoSw
    /\ lret = LOutcome("none", FALSE)

\* direct use of the store: tasks are created by the orchestrator, then
\* written, moved and listed through SwarmWorkspace
StoreNext ==
    \/ Tick
    \/ create_thinking_task(TRUE)
    \/ \E h \in Handles : write_task(h)
    \/ \E h \in Handles, s \in StatusInputs : move_task(h, s)
    \/ \E id \in TaskIds : get_pending_tasks(id)

StoreSpec == Init /\ [][StoreNext]_vars

\* the orchestrator's own operations
Next ==
    \/ Tick
    \/ initialize_swarm
    \/ \E r \in OwnRoles : register_agent(r)
    \/ \E b \in BOOLEAN : create_thinking_task(b)
    \/ exec_begin
    \/ exec_phase1
    \/ exec_phase2
    \/ exec_finish
    \/ get_swarm_status

Spec == Init /\ [][Next]_vars

\* the same with execute_sequential_swarm_thinking, once called, running on
\* to its end: it is straight-line code over finite loops
LiveSpec ==
    Spec /\ WF_vars(exec_phase1) /\ WF_vars(exec_phase2) /\ WF_vars(exec_finish)

\* the orchestrator on a store whose thinking-log writes may fail
FaultNext ==
    \/ Next
    \/ exec_log_fails

FaultSpec == Init /\ [][FaultNext]_vars

\* the launcher, its caller, and the agent processes
SupervisorNext ==
    \/ Tick
    \/ \E t \in LaunchTypes, o \in LaunchOutcomes : launch_agent(t, o)
    \/ \E ty \in SwarmTypes, o \in LaunchOutcomes : launch_swarm_begin(ty, o)
    \/ \E o \in LaunchOutcomes : launch_swarm_step(o)
    \/ \E p \in Pids : proc_exit(p)
    \/ \E p \in Pids : proc_write_result(p)
    \/ \E ids \in IdInputs, t \in Timeouts : monitor_begin(ids, t)
    \/ monitor_poll
    \/ monitor_return
    \/ \E ids \in IdInputs : \E g \in SUBSET ids : cleanup_swarm(ids, g)

SupervisorSpec == Init /\ [][SupervisorNext]_vars

\* the same with the loop of monitor_swarm running on: the thread that
\* called monitor_swarm is never stopped for ever
SupervisorLive ==
    SupervisorSpec /\ WF_vars(monitor_poll) /\ WF_vars(monitor_return)

----------------------------------------------------------------------------
(* Properties of the task store *)

Dirs(fs, id) == {d \in Statuses : HasFile(fs, d, id)}

\* the task subdivisions agree except, possibly, on the entry dir/id
SameExcept(fs1, fs2, dir, id) ==
    \A d \in Statuses :
        /\ (DOMAIN fs1[d]) \ (IF d = dir THEN {id} ELSE {})
             = (DOMAIN fs2[d]) \ (IF d = dir THEN {id} ELSE {})
        /\ \A i \in DOMAIN fs1[d] :
               (d # dir \/ i # id) /\ i \in DOMAIN fs2[d] => fs1[d][i] = fs2[d][i]

\* C1: the status of a task only ever changes from pending to active or from
\* active to completed, and never goes back.
C1_StatusMonotonic ==
    [][\A h \in Handles :
          mem'[h].status # mem[h].status =>
              <<mem[h].status, mem'[h].status>>
                  \in {<<"pending", "active">>, <<"active", "completed">>}]_vars

\* C2: every task that has been written has exactly one record on disk, in
\* the subdivision named by the task's current status.
C2_OneRecordAtStatus ==
    \A id \in DOMAIN active_tasks :
        /\ Cardinality(Dirs(files, id)) = 1
        /\ HasFile(files, mem[active_tasks[id]].status, id)

\* C3: a task carries a completion timestamp if and only if its status is
\* completed.
C3_CompletedAtIffCompleted ==
    \A h \in Handles : (mem[h].completed_at # None) <=> (mem[h].status = "completed")

\* C4: the status of every task, in memory and on disk, is one of pending,
\* active, completed, also after a call that failed.
C4_StatusRecognized ==
    /\ \A h \in Handles : mem[h].status \in Statuses
    /\ \A d \in Statuses : \A id \in DOMAIN files[d] : files[d][id].status \in Statuses

\* C5: write_task on a task with an unrecognized status raises and writes no
\* record; with a recognized status it writes the task's record, keyed by the
\* task id, under the subdivision of that status and nowhere else.
C5_WriteTask ==
    [][\A h \in Handles :
          write_task(h) =>
              LET task == mem[h]
              IN IF task.status \notin Statuses
                 THEN ret'.raised /\ files' = files
                 ELSE /\ ~ret'.raised
                      /\ HasFile(files', task.status, task.task_id)
                      /\ files'[task.status][task.task_id] = task
                      /\ SameExcept(files, files', task.status, task.task_id)]_vars

\* C5, the error case: the last call was a write_task of a task with an
\* unrecognized status, and no record of that task is on disk.
C5_Witness ==
    /\ ret.op = "write_task"
    /\ ret.raised
    /\ mem[ret.h].status = UnknownStatus
    /\ Dirs(files, mem[ret.h].task_id) = {}

----------------------------------------------------------------------------
(* Properties of the process supervisor *)

MonitorStep ==
    \/ \E ids \in IdInputs, t \in Timeouts : monitor_begin(ids, t)
    \/ monitor_poll
    \/ monitor_return

CleanupStep == \E ids \in IdInputs : \E g \in SUBSET ids : cleanup_swarm(ids, g)

\* C7: once cleanup_swarm has returned, every launched id it was given is
\* absent from active_processes and no process launched under that id is
\* running.
C7_CleanupEndsAgent ==
    lret.op = "cleanup_swarm" =>
        \A id \in lret.ids \cap LaunchedIds :
            /\ id \notin DOMAIN active_processes
            /\ \A p \in Pids : procs[p].aid = id => ~Running(p)

\* C8: cleanup_swarm never raises; given ids that have no handle it sends no
\* signal and leaves the handle table as it is, and so does a second
\* cleanup_swarm of the same ids.
C8_CleanupIdempotent ==
    [][\A ids \in IdInputs : \A g \in SUBSET ids :
          cleanup_swarm(ids, g) =>
              /\ ~lret'.raised
              /\ \A id \in ids \ DOMAIN active_processes :
                     id \notin DOMAIN active_processes'
              /\ tracked(ids) = {} \/ lret'.again =>
                     UNCHANGED <<procs, active_processes>>]_vars

\* C8: a second cleanup_swarm of the same launched ids has returned, none of
\* them had a handle left, and a process of another agent is still running.
C8_Witness ==
    /\ lret.op = "cleanup_swarm"
    /\ lret.again
    /\ ~lret.raised
    /\ lret.tracked = {}
    /\ lret.ids \cap LaunchedIds # {}
    /\ \E p \in Pids : Running(p) /\ procs[p].aid \notin lret.ids

\* C9: a handle, once recorded for an agent id, is never replaced, and it
\* leaves the table only through a cleanup_swarm of that id.
C9_HandleNeverOverwritten ==
    [][\A id \in DOMAIN active_processes :
          /\ id \in DOMAIN active_processes' =>
                 active_processes'[id] = active_processes[id]
          /\ id \notin DOMAIN active_processes' =>
                 CleanupStep /\ id \in lret'.ids]_vars

\* what monitor_swarm returns at its timeout about the agents still alive
TimeoutReport(anyTimeout) ==
    monitor_return /\ (anyTimeout \/ mon.timeout > 0) =>
        /\ ~lret'.raised
        /\ \A id \in tracked(mon.ids) :
               Running(active_processes[id]) =>
                   /\ id \in DOMAIN lret'.agent_status
                   /\ lret'.agent_status[id] = "running"

\* no step of monitor_swarm touches a process or a handle, and a process is
\* signalled by cleanup_swarm only
MonitorHandsOff ==
    /\ MonitorStep => UNCHANGED <<procs, active_processes>>
    /\ (\E p \in Pids : procs'[p].signals # procs[p].signals) => CleanupStep

\* C10 as claimed: when monitor_swarm reaches its timeout while a tracked
\* agent's process is alive, it returns without error with that agent
\* reported as running, for every timeout; it terminates no process and
\* changes no handle, which only cleanup_swarm does.
C10_MonitorTimeoutAny ==
    [][TimeoutReport(TRUE) /\ MonitorHandsOff]_vars

\* C10 as amended: the same, for a timeout greater than 0.
C10_MonitorTimeout ==
    [][TimeoutReport(FALSE) /\ MonitorHandsOff]_vars

\* C10: monitor_swarm has returned at a positive timeout with an agent still
\* alive, which is still running and still has its handle.
C10_Witness ==
    /\ lret.op = "monitor_swarm"
    /\ lret.how = "timeout"
    /\ lret.timeout > 0
    /\ ~lret.raised
    /\ \E id \in lret.alive :
           /\ lret.agent_status[id] = "running"
           /\ id \in DOMAIN active_processes
           /\ Running(active_processes[id])

\* a step by which monitor_swarm returns to its caller
MonitorReturns == lpc = "polling" /\ lpc' = "idle" /\ (monitor_poll \/ monitor_return)

\* C11: within one monitor_swarm call a result record, once merged, is never
\* read or merged again, and every monitored agent that has a result record
\* in the results area when monitor_swarm returns is in the returned results.
C11_ResultsCollected ==
    [][/\ monitor_poll =>
             \A id \in DOMAIN mon.swarm_results :
                 /\ id \in DOMAIN mon'.swarm_results \/ lpc' = "idle"
                 /\ lpc' = "polling" => mon'.swarm_results[id] = mon.swarm_results[id]
       /\ MonitorReturns =>
             \A id \in mon.ids \cap DOMAIN results :
                 id \in DOMAIN lret'.swarm_results]_vars

----------------------------------------------------------------------------
(* Properties of the orchestrator *)

Phase2Visit(a) ==
    exec_phase2 /\ a = agents[ex.i] /\ specialty_of(a) # "coordinator"

\* the instances of a role in an agent set
Instances(ags, role) == {a \in Range(ags) : specialty_of(a) = role}

\* C12: in a swarm of at least two non-coordinator agents, the peer input
\* given to an agent's ultrathink_collaborative holds the Phase-1 result of
\* every other non-coordinator agent and never the agent's own.
C12_PeersExcludeSelf ==
    [][\A a \in Range(agents) :
          Phase2Visit(a) /\ Cardinality(NonCoordinators(agents)) >= 2 =>
              /\ a \notin ex'.ultrathink[a]
              /\ \A b \in NonCoordinators(agents) \ {a} : b \in ex'.ultrathink[a]]_vars

\* C12: Phase 2 has run for a swarm of several non-coordinator agents, and
\* each was given a non-empty peer input without its own result.
C12_Witness ==
    /\ pc = "synthesis"
    /\ Cardinality(DOMAIN ex.ultrathink) >= 2
    /\ \A a \in DOMAIN ex.ultrathink :
           ex.ultrathink[a] # {} /\ a \notin ex.ultrathink[a]

\* C13: no agent's Phase 2 starts before the Phase-1 result of every
\* non-coordinator agent has been produced (its thinking log written) and
\* collected, whatever the number and the order of the agents.
C13_PhaseBarrier ==
    [][exec_phase2 =>
          /\ ex.individual = NonCoordinators(agents)
          /\ \A a \in NonCoordinators(agents) :
                 <<a, "sequential_analysis">> \in DOMAIN logs]_vars

\* C13: Phase 2 is under way with every Phase-1 result in, in a swarm that
\* is not the five agents of one initialize_swarm (a caller built it, or
\* initialize_swarm ran twice).
C13_Witness ==
    /\ pc = "phase2"
    /\ ex.i > 1
    /\ DOMAIN ex.ultrathink # {}
    /\ ex.individual = NonCoordinators(agents)
    /\ Len(agents) \in {MaxOwn, 2 * Len(Specialties)}

\* C14: on a fresh orchestrator initialize_swarm yields exactly five agent
\* instances, one for each role, with distinct ids, and writes one
\* agent_initialized message for each of them.
C14_InitializeSwarm ==
    [][initialize_swarm /\ agents = <<>> =>
          /\ Len(agents') = 5
          /\ Cardinality(Range(agents')) = 5
          /\ \A r \in ConfigRoles : Cardinality(Instances(agents', r)) = 1
          /\ LET new == (DOMAIN messages') \ (DOMAIN messages)
             IN /\ Cardinality(new) = 5
                /\ \A a \in Range(agents') :
                       Cardinality({n \in new : messages'[n] = init_message(a)}) = 1
          /\ \A n \in DOMAIN messages : messages'[n] = messages[n]]_vars

\* C14: initialize_swarm has returned on an orchestrator that had no agent,
\* and the five agent_initialized messages are stored.
C14_Witness ==
    /\ ret.op = "initialize_swarm"
    /\ Len(agents) = Len(Specialties)
    /\ Cardinality({n \in DOMAIN messages :
                       messages[n].message_type = "agent_initialized"}) = 5

\* C15: a second initialize_swarm replaces the agent set: afterwards it holds
\* one instance of each role, all of them made by that call.
C15_ReinitReplaces ==
    [][initialize_swarm /\ inits(agents) >= 1 =>
          /\ Range(agents') \cap Range(agents) = {}
          /\ \A r \in ConfigRoles : Cardinality(Instances(agents', r)) = 1]_vars

\* C16: when the agent set holds an instance of the synthesizer role, the
\* final_synthesis of the finished task is that instance's integration of the
\* Phase-2 outputs, not the marker of an absent synthesizer.
C16_SynthesizerUsed ==
    [][exec_finish /\ Instances(agents, "synthesizer") # {} =>
          mem'[active_tasks[ex.task_id]].result.final_synthesis = "integrated"]_vars

\* C17: when the agent set holds no instance of the synthesizer role,
\* execute_sequential_swarm_thinking does not fail: final_synthesis is the
\* marker of an absent synthesizer and the task ends completed, its record in
\* the completed subdivision.
C17_NoSynthesizer ==
    [][exec_finish /\ Instances(agents, "synthesizer") = {} =>
          LET task == mem'[active_tasks[ex.task_id]]
          IN /\ ~ret'.raised
             /\ task.result.final_synthesis = "unavailable"
             /\ task.status = "completed"
             /\ HasFile(files', "completed", ex.task_id)
             /\ files'["completed"][ex.task_id] = task]_vars

\* C17: execute_sequential_swarm_thinking has returned for a swarm without a
\* synthesizer, with the marker in the result of the completed task.
C17_Witness ==
    /\ ret.op = "execute_sequential_swarm_thinking"
    /\ ~ret.raised
    /\ agents # <<>>
    /\ Instances(agents, "synthesizer") = {}
    /\ mem[ret.h].status = "completed"
    /\ mem[ret.h].result.final_synthesis = "unavailable"

\* C18: when execute_sequential_swarm_thinking returns on a freshly
\* initialized swarm of five roles, its task is completed with a completion
\* timestamp, the record in the completed subdivision carries the result
\* bundle, and individual_sequential_thinking and collaborative_ultrathink
\* are both keyed by the ids of the four non-coordinator agents.
C18_ExecutionResult ==
    [][exec_finish /\ Len(agents) = 5 /\ inits(agents) = 1 =>
          LET task == mem'[active_tasks[ex.task_id]]
              four == NonCoordinators(agents)
          IN /\ ~ret'.raised
             /\ task.status = "completed"
             /\ task.completed_at # None
             /\ task.result.present
             /\ Dirs(files', ex.task_id) = {"completed"}
             /\ files'["completed"][ex.task_id] = task
             /\ Cardinality(four) = 4
             /\ task.result.individual = four
             /\ task.result.ultrathink = four
             /\ Instances(agents, "coordinator") \cap
                    (task.result.individual \cup task.result.ultrathink) = {}]_vars

\* C18: execute_sequential_swarm_thinking has returned on a swarm of five
\* agents and the stored record of its completed task carries the bundle.
C18_Witness ==
    /\ ret.op = "execute_sequential_swarm_thinking"
    /\ Len(agents) = 5
    /\ inits(agents) = 1
    /\ HasFile(files, "completed", mem[ret.h].task_id)
    /\ files["completed"][mem[ret.h].task_id].result.present
    /\ Cardinality(files["completed"][mem[ret.h].task_id].result.ultrathink) = 4

\* C19: create_thinking_task gives the task the three mandatory phases, and
\* the four collaborative phases after them only when require_ultrathink is
\* true; it stores the task as pending in the pending subdivision and writes
\* one task_created message whose correlation id is the returned task id.
C19_CreateThinkingTask ==
    [][\A b \in BOOLEAN :
          create_thinking_task(b) =>
              LET task == mem'[ret'.h]
                  id == task.task_id
                  written == {n \in DOMAIN messages' :
                                 n \notin DOMAIN messages \/ messages'[n] # messages[n]}
              IN /\ task.sequential_steps =
                        (IF b THEN MandatorySteps \o UltrathinkSteps ELSE MandatorySteps)
                 /\ Len(MandatorySteps) = 3 /\ Len(UltrathinkSteps) = 4
                 /\ task.status = "pending"
                 /\ id \notin DOMAIN active_tasks
                 /\ active_tasks'[id] = ret'.h
                 /\ Dirs(files', id) = {"pending"}
                 /\ files'["pending"][id] = task
                 /\ Cardinality(written) = 1
                 /\ \A n \in written :
                        /\ messages'[n].message_type = "task_created"
                        /\ messages'[n].correlation_id = id]_vars

\* C19: create_thinking_task has returned a task of the three mandatory
\* phases only, stored as pending, with its task_created message.
C19_Witness ==
    /\ ret.op = "create_thinking_task"
    /\ mem[ret.h].sequential_steps = MandatorySteps
    /\ HasFile(files, "pending", mem[ret.h].task_id)
    /\ \E n \in DOMAIN messages :
           messages[n] = task_message(mem[ret.h].task_id)

\* C20: a message, once stored, is never changed, replaced or deleted by a
\* later operation, also when a later message gets the same derived name.
C20_MessagesAppendOnly ==
    [][\A n \in DOMAIN messages :
          n \in DOMAIN messages' /\ messages'[n] = messages[n]]_vars

Phase1Visit(a) ==
    exec_phase1 /\ a = agents[ex.i] /\ specialty_of(a) # "coordinator"

\* the names of the thinking logs of an agent for a stage
LogNames(lg, a, stage) == {n \in DOMAIN lg : n[1] = a /\ n[2] = stage}

ThinkingStages == {"sequential_analysis", "ultrathink_collaborative"}

\* C21: the thinking-log store holds at most one entry for an agent and a
\* stage: once an agent has run sequential_think and ultrathink_collaborative,
\* the listing of its logs is exactly two entries, one of each stage; a
\* further sequential_think of the agent replaces its sequential_analysis
\* entry and leaves the entries of the other agents as they were.
C21_OneLogPerStage ==
    [][/\ \A a \in Range(agents), st \in ThinkingStages :
              Cardinality(LogNames(logs', a, st)) <= 1
       /\ \A a \in Range(agents) :
              Phase1Visit(a) =>
                  /\ Cardinality(LogNames(logs', a, "sequential_analysis")) = 1
                  /\ \E e \in collect_thinking_sessions(logs', a) :
                         e.stage = "sequential_analysis" /\ e.timestamp = now
                  /\ \A n \in DOMAIN logs : n[1] # a => n \in DOMAIN logs' /\ logs'[n] = logs[n]
       /\ pc' = "synthesis" =>
              \A a \in NonCoordinators(agents) :
                  /\ Cardinality(collect_thinking_sessions(logs', a)) = 2
                  /\ {e.stage : e \in collect_thinking_sessions(logs', a)}
                         = ThinkingStages]_vars

\* C21: an agent that had run both stages has run sequential_think again,
\* later: its listing is two entries, the sequential_analysis one the newer.
C21_Witness ==
    /\ pc \in {"phase1", "phase2"}
    /\ \E a \in NonCoordinators(agents) :
           /\ Cardinality(collect_thinking_sessions(logs, a)) = 2
           /\ \E e, f \in collect_thinking_sessions(logs, a) :
                  /\ e.stage = "sequential_analysis"
                  /\ f.stage = "ultrathink_collaborative"
                  /\ e.timestamp > f.timestamp

\* C22: when the write of a phase's thinking log fails with an I/O error,
\* execute_sequential_swarm_thinking does not raise and does not give the
\* task up: the remaining agents and phases run and the call returns with a
\* result bundle attached to the completed task.
C22_LogFailureTolerated ==
    ret.op = "execute_sequential_swarm_thinking" =>
        /\ ~ret.raised
        /\ mem[ret.h].result.present
        /\ mem[ret.h].status = "completed"

\* C23: get_swarm_status is read-only: it leaves the agent set, the task
\* table and the tasks in memory, and every stored task, message and thinking
\* log as they were.
C23_StatusReadOnly ==
    [][get_swarm_status =>
          UNCHANGED <<agents, active_tasks, mem, files, messages, logs>>]_vars

\* C23: get_swarm_status has returned in a state with agents, a finished
\* task, messages and thinking logs, all of them still there.
C23_Witness ==
    /\ ret.op = "get_swarm_status"
    /\ ret.report.agents = Range(agents)
    /\ agents # <<>>
    /\ ret.report.thinking_sessions > 0
    /\ DOMAIN messages # {}
    /\ \E id \in DOMAIN active_tasks :
           /\ mem[active_tasks[id]].status = "completed"
           /\ HasFile(files, "completed", id)

\* C24: launch_agent with a role that is not in the catalog, or whose
\* executable cannot be started, raises to its caller, does not try the start
\* a second time, and records no handle: the handle table and the processes
\* are as before.
C24_LaunchFailure ==
    [][\A t \in LaunchTypes, o \in LaunchOutcomes :
          launch_agent(t, o) /\ (t \notin ConfigRoles \/ o = "popen_fails") =>
              /\ lret'.raised
              /\ lret'.popen_calls <= 1
              /\ lret'.popen_calls = 1 <=> t \in ConfigRoles
              /\ UNCHANGED <<active_processes, procs>>]_vars

\* C24: a launch of a catalog role has failed at the start of its
\* executable while an earlier agent keeps its handle and runs.
C24_Witness ==
    /\ lret.op = "launch_agent"
    /\ lret.raised
    /\ lret.popen_calls = 1
    /\ \E id \in DOMAIN active_processes : Running(active_processes[id])

\* C26: for each id that has a handle, cleanup_swarm sends nothing to a
\* process that has exited; to a running one it sends the termination signal
\* first and the kill only when the process has not exited by the end of the
\* grace period; in every case the handle is removed.
C26_CleanupSignals ==
    [][\A ids \in IdInputs : \A g \in SUBSET ids :
          cleanup_swarm(ids, g) =>
              \A id \in tracked(ids) :
                  LET p == active_processes[id]
                  IN /\ id \notin DOMAIN active_processes'
                     /\ ~Running(p) => procs'[p] = procs[p]
                     /\ Running(p) /\ id \in g =>
                            procs'[p].signals = <<"SIGTERM">>
                     /\ Running(p) /\ id \notin g =>
                            procs'[p].signals = <<"SIGTERM", "SIGKILL">>
                     /\ Running(p) => procs'[p].state # "running"]_vars

\* C26: one cleanup_swarm has ended a process by the termination signal
\* alone, another one has had to kill, and a third id had exited by itself.
C26_Witness ==
    /\ lret.op = "cleanup_swarm"
    /\ active_processes = EmptyMap
    /\ \E p, q \in Pids :
           /\ procs[p].signals = <<"SIGTERM", "SIGKILL">>
           /\ procs[q].signals \in {<<"SIGTERM">>, <<>>}
           /\ p # q
           /\ ~Running(q)

\* the parts of an integration that are lists of findings, not numbers
FindingLists ==
    {"synthesized_insights", "conflicts_identified", "emergent_patterns",
     "collaborative_conclusions"}

\* C25: the integration part of the result of ultrathink_collaborative
\* reports the number of peer inputs it was given, whatever that number is,
\* zero included.
C25_IntegrationCountsPeers ==
    \A a \in DOMAIN ex.integration :
        \E f \in (DOMAIN ex.integration[a]) \ FindingLists :
            ex.integration[a][f] = Cardinality(ex.ultrathink[a])

C28_FailedMoveChangesNothing ==
    [][\A h \in Handles :
          move_task(h, UnknownStatus) =>
              /\ ret'.raised
              /\ files' = files
              /\ mem'[h].status = mem[h].status
              /\ mem'[h].completed_at = mem[h].completed_at]_vars

\* C29: every task created by execute_sequential_swarm_thinking eventually
\* is completed, no store write failing; and a task becomes completed only
\* once Phase 1 and Phase 2 have run for every non-coordinator agent, with
\* their thinking logs written, and the result bundle is attached to it.
C29_EventuallyCompleted ==
    /\ \A id \in TaskIds :
           (pc # "idle" /\ ex.task_id = id) ~>
               /\ id \in DOMAIN active_tasks
               /\ mem[active_tasks[id]].status = "completed"
               /\ HasFile(files, "completed", id)
    /\ [][\A h \in Handles :
             mem[h].status # "completed" /\ mem'[h].status = "completed" =>
                 /\ exec_finish
                 /\ h = active_tasks[ex.task_id]
                 /\ ex.individual = NonCoordinators(agents)
                 /\ DOMAIN ex.ultrathink = NonCoordinators(agents)
                 /\ \A a \in NonCoordinators(agents), st \in ThinkingStages :
                        LogNames(logs, a, st) # {}
                 /\ mem'[h].result.present
                 /\ files'["completed"][mem[h].task_id].result.present]_vars

\* C29: two executions have run to their end and both tasks are completed,
\* each with its bundle.
C29_Witness ==
    /\ pc = "idle"
    /\ Cardinality(DOMAIN active_tasks) >= 2
    /\ \A id \in DOMAIN active_tasks :
           /\ mem[active_tasks[id]].status = "completed"
           /\ mem[active_tasks[id]].result.present
           /\ HasFile(files, "completed", id)

\* a pass of launch_swarm's loop in which launch_agent raises
SwarmLaunchFails(o) ==
    /\ launch_swarm_step(o)
    /\ sw.i <= Len(sw.types)
    /\ sw.types[sw.i] # "coordinator"
    /\ launch_raises(sw.types[sw.i], o)

\* C30: when launch_swarm fails at the launch of some agent, it raises and
\* returns no id, and the agents it had launched are left as they are: no
\* process is signalled, and their handles stay in the handle table.
C30_SwarmFailureLeavesAgents ==
    [][\A o \in LaunchOutcomes :
          SwarmLaunchFails(o) =>
              /\ lret'.op = "launch_swarm"
              /\ lret'.raised
              /\ lret'.launched = <<>>
              /\ lpc' = "idle"
              /\ UNCHANGED <<procs, active_processes>>
              /\ \A id \in Range(sw.launched) :
                     /\ id \in DOMAIN active_processes'
                     /\ procs'[active_processes'[id]].signals = <<>>]_vars

\* C30: launch_swarm has raised after it had launched the coordinator, which
\* still runs under its handle.
C30_Witness ==
    /\ lret.op = "launch_swarm"
    /\ lret.raised
    /\ lret.abandoned # <<>>
    /\ \A id \in Range(lret.abandoned) :
           /\ id \in DOMAIN active_processes
           /\ Running(active_processes[id])

IsCoordinator(agent_type) == agent_type = "coordinator"

NotCoordinator(agent_type) == agent_type # "coordinator"

\* launch_swarm returns its list
SwarmReturns == \E o \in LaunchOutcomes :
                    launch_swarm_step(o) /\ sw.i > Len(sw.types)

created == Len(mem)

\* C33: the active task count get_swarm_status reports is the number of
\* tasks created so far; the task table never loses an entry, and a task
\* execute_sequential_swarm_thinking has completed is still in it and counted.
C33_ActiveTaskCount ==
    /\ [][get_swarm_status => ret'.report.active_tasks = created]_vars
    /\ [][/\ DOMAIN active_tasks \subseteq DOMAIN active_tasks'
          /\ \A id \in DOMAIN active_tasks : active_tasks'[id] = active_tasks[id]
          /\ swarm_status'.active_tasks >= swarm_status.active_tasks]_vars
    /\ [][exec_finish =>
             /\ ex.task_id \in DOMAIN active_tasks'
             /\ mem'[active_tasks'[ex.task_id]].status = "completed"
             /\ swarm_status'.active_tasks = swarm_status.active_tasks]_vars

\* C33: get_swarm_status has reported two active tasks when both tasks
\* created had been completed.
C33_Witness ==
    /\ ret.op = "get_swarm_status"
    /\ ret.report.active_tasks = 2
    /\ created = 2
    /\ \A id \in DOMAIN active_tasks :
           mem[active_tasks[id]].status = "completed"

====
